---------------------------- MODULE Spec2Model ----------------------------
(***************************************************************************)
(* Model of sqlx-core/src/config/mod.rs: the process-wide, write-once      *)
(* cache of the parsed `sqlx.toml` (static CACHE: OnceCell<Config>) and    *)
(* the loader entry points Config::from_crate, Config::try_from_crate,     *)
(* Config::try_from_current_dir and Config::try_get_with, together with    *)
(* the error taxonomy ConfigError.                                         *)
(*                                                                         *)
(* Option<T> is modelled as a sequence of length at most one (<<>> is      *)
(* None, <<v>> is Some(v)); a PathBuf as the sequence of its components.   *)
(***************************************************************************)
EXTENDS Integers, Sequences, FiniteSets, TLC

(* ------------------------------ bounds --------------------------------- *)

\* Number of caller threads.
NumThreads == 2

\* Total number of loader calls made in one execution.
MaxCalls == 3

Threads == 1..NumThreads

(* --------------------------- the Config type --------------------------- *)

\* The sections of Config (struct fields, kebab-case keys of the document).
Sections == {"common", "macros", "migrate"}

\* Default value of a section (derive(Default)); other values are what a
\* document sets a section to.
SectionDefault == 0

\* Config::default(): every section at its default.
ConfigDefault == [s \in Sections |-> SectionDefault]

(* ------------------------------ the world ------------------------------ *)

\* The environment and the filesystem belong to the outside world, which may
\* change them at any time: every read of CARGO_MANIFEST_DIR and every
\* access to a path may find any of the values below.

\* Values std::env::var("CARGO_MANIFEST_DIR") can see: the variable is
\* unset, holds invalid unicode, or names the crate's directory.
EnvValues == {"NotPresent", "NotUnicode", "crate"}

\* `$CARGO_MANIFEST_DIR/sqlx.toml` and `sqlx.toml` in the working directory.
CratePath == <<"crate", "sqlx.toml">>
CwdPath   == <<"sqlx.toml">>
Paths     == {CratePath, CwdPath}

\* What can be at a path:
\*   absent       no such entry (ENOENT)
\*   denied       a file that may not be opened for reading (EACCES on open)
\*   isdir        a directory
\*   unreachable  the parent directory may not be searched: existence can
\*                neither be confirmed nor denied (EACCES on stat and open)
\*   garbage      a readable file that is not valid TOML
\*   doc          a readable, valid TOML document
FileStates == {"absent", "denied", "isdir", "unreachable", "garbage", "doc"}

\* The text of the valid document at each path: the sections it sets.
\* Sections it leaves out are absent from the document.
DocumentAt(path) ==
    IF path = CratePath THEN [s \in {"migrate"} |-> 1]
                        ELSE [s \in {"common", "macros"} |-> 2]

\* The unparsable text.
GarbageText == [syntax |-> FALSE, keys |-> [s \in {} |-> 0]]

DocText(path) == [syntax |-> TRUE, keys |-> DocumentAt(path)]

(* ------------------------- results and errors -------------------------- *)

\* A Result<&'static Config, ConfigError>, or the lack of one.  tag is "Ok",
\* one of the ConfigError variants, "Panic" (the call unwound) or "None"
\* (the call has not returned); val is the Configuration returned; path is
\* the `path` field of the variant (empty for a variant without one); cause
\* is the nested source error (VarError, io::ErrorKind, toml error).
Res(tag, val, path, cause) ==
    [tag |-> tag, val |-> val, path |-> path, cause |-> cause]

NoResult == Res("None", <<>>, <<>>, "")
Panic    == Res("Panic", <<>>, <<>>, "")
Ok(cfg)  == Res("Ok", <<cfg>>, <<>>, "")

ErrorKinds == {"Env", "NotFound", "Io", "Parse", "ParseDisabled"}

\* The variants of ConfigError.
Env(varError)       == Res("Env", <<>>, <<>>, varError)
NotFound(path)      == Res("NotFound", <<>>, <<path>>, "")
Io(path, error)     == Res("Io", <<>>, <<path>>, error)
Parse(path, error)  == Res("Parse", <<>>, <<path>>, error)
ParseDisabled(path) == Res("ParseDisabled", <<>>, <<path>>, "")

IsErr(r) == r.tag \in ErrorKinds

\* A bug from_io could have: every I/O failure becomes Io.
from_io_always_io(path, error) == Io(path, error)

\* A bug from_io could have: the test of the error's kind is inverted.
from_io_inverted(path, error) ==
    IF error # "NotFound" THEN NotFound(path) ELSE Io(path, error)

\* A bug from_io could have: the path is left out of Io.
from_io_drops_path(path, error) ==
    IF error = "NotFound" THEN NotFound(path) ELSE Res("Io", <<>>, <<>>, error)

\* ConfigError::from_io: NotFound for io::ErrorKind::NotFound, Io otherwise.
from_io(path, error) ==
    IF error = "NotFound" THEN NotFound(path) ELSE Io(path, error)

\* A bug not_found_path could have: the path of any variant is returned.
not_found_path_any(e) == e.path

\* ConfigError::not_found_path: Some(path) for NotFound, None otherwise.
not_found_path(e) ==
    IF e.tag = "NotFound" THEN e.path ELSE <<>>

\* No ConfigError has been made through the public functions yet.
NoProbe == [made |-> FALSE, via |-> "none", path |-> <<>>, kind |-> "",
            err |-> NoResult, asked |-> FALSE, found |-> <<>>]

(* --------------------- the collaborators of read_from ------------------ *)

\* std::fs::read_to_string on a path in file state st.
read_to_string(st, path) ==
    CASE st = "absent"      -> [ok |-> FALSE, text |-> GarbageText, err |-> "NotFound"]
      [] st = "denied"      -> [ok |-> FALSE, text |-> GarbageText, err |-> "PermissionDenied"]
      [] st = "unreachable" -> [ok |-> FALSE, text |-> GarbageText, err |-> "PermissionDenied"]
      [] st = "isdir"       -> [ok |-> FALSE, text |-> GarbageText, err |-> "IsADirectory"]
      [] st = "garbage"     -> [ok |-> TRUE, text |-> GarbageText, err |-> ""]
      [] st = "doc"         -> [ok |-> TRUE, text |-> DocText(path), err |-> ""]

\* Path::try_exists on a path in file state st: Ok(true), Ok(false), or the
\* error of the failed metadata query (never NotFound, which is Ok(false)).
try_exists(st) ==
    CASE st = "absent"      -> [ok |-> TRUE, exists |-> FALSE, err |-> ""]
      [] st = "unreachable" -> [ok |-> FALSE, exists |-> FALSE, err |-> "PermissionDenied"]
      [] OTHER              -> [ok |-> TRUE, exists |-> TRUE, err |-> ""]

\* toml::from_str into Config under serde(default): a section the document
\* sets takes the document's value, any other its default; text that is
\* not TOML is an error.
from_str(text) ==
    IF text.syntax
    THEN [ok  |-> TRUE,
          cfg |-> [s \in Sections |->
                      IF s \in DOMAIN text.keys THEN text.keys[s]
                                                ELSE SectionDefault],
          err |-> ""]
    ELSE [ok |-> FALSE, cfg |-> ConfigDefault, err |-> "TomlError"]

(* ------------------------------- state --------------------------------- *)

VARIABLES
    feature,     \* whether the build has the `sqlx-toml` feature
    cacheState,  \* CACHE: the state of the OnceCell
    cacheVal,    \* CACHE: the value slot of the OnceCell (Option<Config>)
    pc,          \* where each thread is in its current call
    entry,       \* the entry point of each thread's current call
    strat,       \* the path strategy (make_path) of the current call
    path,        \* the path the strategy produced (Option<PathBuf>)
    attempt,     \* what try_get_with returned to the current call
    ret,         \* what the current call returned to its caller
    mkCalls,     \* history: times the current call invoked make_path
    fsOps,       \* history: filesystem accesses made by the current call
    wrote,       \* history: whether the current call wrote the cell
    sawOk,       \* history: the Configuration some fallible call had
                 \*          already returned when the current call began
    seenEnv,     \* history: the CARGO_MANIFEST_DIR make_path ran in
    seenFile,    \* history: what was at the path when read_from ran
    cellLeft,    \* history: the cell as try_get_with left it on returning
    firstOk,     \* history: the first Configuration a fallible call returned
    firstVal,    \* history: the first value written to the cell
    observed,    \* history: every Configuration any call has returned
    calls,       \* history: number of calls started
    cellAtStart, \* history: the cell's slot when the current call began
    waited,      \* whether the call in progress began while another thread
                 \*          was initializing the cell, and so has to wait
    writes,      \* history: number of values stored into the cell
    loads,       \* history: number of times read_from returned Ok
    writer,      \* history: the closure whose value was stored first
    probe        \* a ConfigError made and queried through the public
                 \*          functions of ConfigError

cell    == <<cacheState, cacheVal>>
inputs  == <<entry, strat, sawOk>>
outputs == <<attempt, ret, cellLeft, firstOk, observed, waited>>
traces  == <<mkCalls, fsOps, wrote, seenEnv, seenFile, firstVal>>
ledger  == <<writes, loads, writer>>

vars == <<feature, cell, pc, inputs, path, outputs, traces, calls,
          cellAtStart, ledger, probe>>

\* States of the OnceCell.
CellStates == {"INCOMPLETE", "RUNNING", "COMPLETE"}

\* The entry points.
Entries == {"from_crate", "try_from_crate", "try_from_current_dir", "try_get_with"}

\* Path strategies: the closure of try_from_crate, the closure of
\* try_from_current_dir, and for a direct call of try_get_with a closure that
\* returns the crate's path without consulting the environment, and one that
\* fails.
Strategies == {"env_crate", "lit_cwd", "lit_crate", "fail"}

\* The strategies an entry point may be called with.
StrategiesOf(e) ==
    CASE e = "from_crate"           -> {"env_crate"}
      [] e = "try_from_crate"       -> {"env_crate"}
      [] e = "try_from_current_dir" -> {"lit_cwd"}
      [] e = "try_get_with"         -> {"lit_crate", "fail"}

\* static CACHE: OnceCell<Config> = OnceCell::new(), in a fresh process of
\* either build.
Init ==
    /\ feature \in BOOLEAN
    /\ cacheState = "INCOMPLETE"
    /\ cacheVal = <<>>
    /\ pc = [t \in Threads |-> "idle"]
    /\ entry = [t \in Threads |-> "try_from_crate"]
    /\ strat = [t \in Threads |-> "env_crate"]
    /\ path = [t \in Threads |-> <<>>]
    /\ attempt = [t \in Threads |-> NoResult]
    /\ ret = [t \in Threads |-> NoResult]
    /\ mkCalls = [t \in Threads |-> 0]
    /\ fsOps = [t \in Threads |-> 0]
    /\ wrote = [t \in Threads |-> FALSE]
    /\ sawOk = [t \in Threads |-> <<>>]
    /\ seenEnv = [t \in Threads |-> "none"]
    /\ seenFile = [t \in Threads |-> "none"]
    /\ cellLeft = [t \in Threads |-> <<"none", <<>>>>]
    /\ firstOk = <<>>
    /\ firstVal = <<>>
    /\ observed = {}
    /\ calls = 0
    /\ cellAtStart = [t \in Threads |-> <<>>]
    /\ waited = [t \in Threads |-> FALSE]
    /\ writes = 0
    /\ loads = 0
    /\ writer = "none"
    /\ probe = NoProbe

(* --------------------------- path strategies --------------------------- *)

\* A bug the closure of try_from_crate could have: an unusable variable is
\* replaced by the empty path instead of being reported.
try_from_crate_path_lenient(e) ==
    IF e \in {"NotPresent", "NotUnicode"}
    THEN [ok |-> TRUE, path |-> <<"sqlx.toml">>, err |-> NoResult]
    ELSE [ok |-> TRUE, path |-> Append(<<e>>, "sqlx.toml"), err |-> NoResult]

\* The closure of try_from_crate: PathBuf::from(env::var(..)?) with
\* "sqlx.toml" pushed; env::var fails with VarError::NotPresent or
\* VarError::NotUnicode, which `?` converts into ConfigError::Env.
try_from_crate_path(e) ==
    IF e \in {"NotPresent", "NotUnicode"}
    THEN [ok |-> FALSE, path |-> <<>>, err |-> Env(e)]
    ELSE [ok |-> TRUE, path |-> Append(<<e>>, "sqlx.toml"), err |-> NoResult]

\* A bug the closure of try_from_current_dir could have: it returns the
\* path of the other strategy.
try_from_current_dir_path_crate ==
    [ok |-> TRUE, path |-> <<"crate", "sqlx.toml">>, err |-> NoResult]

\* The closure of try_from_current_dir: Ok("sqlx.toml".into()).
try_from_current_dir_path ==
    [ok |-> TRUE, path |-> <<"sqlx.toml">>, err |-> NoResult]

\* What a strategy may find when it reads CARGO_MANIFEST_DIR; "none" for
\* a strategy that does not read it.
EnvRead(s) == IF s = "env_crate" THEN EnvValues ELSE {"none"}

\* make_path(): the strategy s run in environment e.
make_path(s, e) ==
    CASE s = "env_crate" -> try_from_crate_path(e)
      [] s = "lit_cwd"   -> try_from_current_dir_path
      [] s = "lit_crate" -> [ok |-> TRUE, path |-> CratePath, err |-> NoResult]
      [] s = "fail"      -> [ok |-> FALSE, path |-> <<>>, err |-> Env("NotPresent")]

(* ------------------------------ read_from ------------------------------ *)

\* Config::read_from with the `sqlx-toml` feature, finding st at the path
\* p: read the file, classify
\* a failed read with from_io, parse what was read.
read_from_toml(p, st) ==
    LET r == read_to_string(st, p) IN
    IF ~r.ok
    THEN from_io(p, r.err)
    ELSE LET c == from_str(r.text) IN
         IF c.ok THEN Ok(c.cfg) ELSE Parse(p, c.err)

\* Config::read_from without the `sqlx-toml` feature, finding st at the
\* path p: only ask whether the path exists.
read_from_disabled(p, st) ==
    LET e == try_exists(st) IN
    CASE e.ok /\ e.exists  -> ParseDisabled(p)
      [] e.ok /\ ~e.exists -> NotFound(p)
      [] OTHER             -> from_io(p, e.err)

\* A bug read_from could have: the file is read and parsed in every build.
read_from_ignoring_feature(p, st) == read_from_toml(p, st)

\* Config::read_from as compiled into this build.
read_from(p, st) ==
    IF feature THEN read_from_toml(p, st) ELSE read_from_disabled(p, st)

(* ----------------------------- the OnceCell ---------------------------- *)

\* OnceCell::get's test: the cell holds a value.
is_initialized(st) == st = "COMPLETE"

\* A bug the cell could have: a caller claims the cell whenever nobody else
\* is running a closure, also when it already holds a value.
may_initialize_unless_running(st) == st # "RUNNING"

\* The state in which a caller of get_or_try_init may claim the cell and
\* run its closure.
may_initialize(st) == st = "INCOMPLETE"

\* A bug the cell could have: a successful closure does not mark the cell
\* initialized.
state_after_never_complete(success) == "INCOMPLETE"

\* A bug the cell could have: a failed closure marks the cell initialized.
state_after_poisoned(success) == "COMPLETE"

\* A bug the cell could have: a failed closure leaves the cell claimed.
state_after_stuck(success) == IF success THEN "COMPLETE" ELSE "RUNNING"

\* The state the claiming caller leaves the cell in when its closure has
\* returned: COMPLETE on Ok, INCOMPLETE again on Err.
state_after(success) == IF success THEN "COMPLETE" ELSE "INCOMPLETE"

\* The slot after the closure returned r: written on Ok, untouched on Err.
slot_after(slot, r) == IF r.tag = "Ok" THEN r.val ELSE slot

(* ------------------------------ from_crate ----------------------------- *)

\* A bug from_crate could have: the fallback is not the default.
default_closure_not_default == Ok([s \in Sections |-> 1])

\* The closure from_crate gives get_or_init: Config::default.
default_closure == Ok(ConfigDefault)

\* A bug from_crate could have: every error falls back to the default.
from_crate_on_error_lenient(e) == "get_or_init"

\* The closure from_crate gives unwrap_or_else: on NotFound fall back to
\* CACHE.get_or_init(Config::default), on every other error panic.
from_crate_on_error(e) ==
    IF e.tag = "NotFound" THEN "get_or_init" ELSE "panic"

(* ------------------------------- actions ------------------------------- *)

\* try_get_with has returned r to thread t's current call, leaving the cell
\* in state st with slot val: a fallible entry point returns r to its
\* caller; from_crate returns an Ok, and handles an error with
\* from_crate_on_error.
Returned(t, r, st, val) ==
    /\ attempt' = [attempt EXCEPT ![t] = r]
    /\ cellLeft' = [cellLeft EXCEPT ![t] = <<st, val>>]
    /\ IF entry[t] = "from_crate" /\ IsErr(r)
       THEN IF from_crate_on_error(r) = "get_or_init"
            THEN /\ pc' = [pc EXCEPT ![t] = "get_or_init"]
                 /\ ret' = ret
                 /\ waited' = waited
            ELSE /\ pc' = [pc EXCEPT ![t] = "panicked"]
                 /\ ret' = [ret EXCEPT ![t] = Panic]
                 /\ waited' = [waited EXCEPT ![t] = FALSE]
       ELSE /\ pc' = [pc EXCEPT ![t] = "done"]
            /\ ret' = [ret EXCEPT ![t] = r]
            /\ waited' = [waited EXCEPT ![t] = FALSE]
    /\ firstOk' = IF r.tag = "Ok" /\ firstOk = <<>> THEN r.val ELSE firstOk
    /\ observed' = IF r.tag = "Ok" THEN observed \cup {r.val[1]} ELSE observed

\* A thread calls an entry point.  Threads are interchangeable: they make
\* their first calls in the order of their indices.
Start(t) ==
    /\ calls < MaxCalls
    /\ pc[t] \in {"idle", "done", "panicked"}
    /\ \A u \in Threads : u < t => pc[u] # "idle"
    /\ \E e \in Entries : \E s \in StrategiesOf(e) :
          /\ entry' = [entry EXCEPT ![t] = e]
          /\ strat' = [strat EXCEPT ![t] = s]
    /\ pc' = [pc EXCEPT ![t] = "get_or_try_init"]
    /\ path' = [path EXCEPT ![t] = <<>>]
    /\ attempt' = [attempt EXCEPT ![t] = NoResult]
    /\ ret' = [ret EXCEPT ![t] = NoResult]
    /\ cellLeft' = [cellLeft EXCEPT ![t] = <<"none", <<>>>>]
    /\ mkCalls' = [mkCalls EXCEPT ![t] = 0]
    /\ fsOps' = [fsOps EXCEPT ![t] = 0]
    /\ wrote' = [wrote EXCEPT ![t] = FALSE]
    /\ seenEnv' = [seenEnv EXCEPT ![t] = "none"]
    /\ seenFile' = [seenFile EXCEPT ![t] = "none"]
    /\ sawOk' = [sawOk EXCEPT ![t] = firstOk]
    /\ calls' = calls + 1
    /\ cellAtStart' = [cellAtStart EXCEPT ![t] = cacheVal]
    /\ waited' = [waited EXCEPT ![t] = (cacheState = "RUNNING")]
    /\ UNCHANGED <<feature, cell, firstOk, firstVal, observed, ledger, probe>>

\* CACHE.get_or_try_init(closure): claim the cell if it is uninitialized
\* and nobody is initializing it, return its value if it is initialized,
\* and wait while somebody is initializing it.
GetOrTryInit(t) ==
    /\ pc[t] = "get_or_try_init"
    /\ IF may_initialize(cacheState)
       THEN /\ cacheState' = "RUNNING"
            /\ pc' = [pc EXCEPT ![t] = "make_path"]
            /\ UNCHANGED outputs
       ELSE /\ is_initialized(cacheState)
            /\ cacheState' = cacheState
            /\ Returned(t, Res("Ok", cacheVal, <<>>, ""), cacheState, cacheVal)
    /\ UNCHANGED <<feature, cacheVal, inputs, path, traces, calls,
                   cellAtStart, ledger, probe>>

\* The closure of try_get_with, first line: `let path = make_path()?`.
MakePath(t) ==
    /\ pc[t] = "make_path"
    /\ mkCalls' = [mkCalls EXCEPT ![t] = @ + 1]
    /\ \E e \in EnvRead(strat[t]) :
          /\ seenEnv' = [seenEnv EXCEPT ![t] = e]
          /\ LET r == make_path(strat[t], e) IN
             IF r.ok
             THEN /\ path' = [path EXCEPT ![t] = <<r.path>>]
                  /\ pc' = [pc EXCEPT ![t] = "read_from"]
                  /\ UNCHANGED <<cacheState, outputs>>
             ELSE /\ path' = path
                  /\ cacheState' = state_after(FALSE)
                  /\ Returned(t, r.err, state_after(FALSE), cacheVal)
    /\ UNCHANGED <<feature, cacheVal, inputs, fsOps, wrote, seenFile, firstVal,
                   calls, cellAtStart, ledger, probe>>

\* The closure of try_get_with, second line: `Self::read_from(path)`; the
\* cell stores an Ok and is released.
ReadFrom(t) ==
    /\ pc[t] = "read_from"
    /\ fsOps' = [fsOps EXCEPT ![t] = @ + 1]
    /\ \E found \in FileStates :
          /\ seenFile' = [seenFile EXCEPT ![t] = found]
          /\ LET r    == read_from(path[t][1], found)
                 slot == slot_after(cacheVal, r)
                 st   == state_after(r.tag = "Ok")
             IN
             /\ cacheVal' = slot
             /\ cacheState' = st
             /\ wrote' = [wrote EXCEPT ![t] = (slot # cacheVal)]
             /\ firstVal' = IF firstVal = <<>> THEN slot ELSE firstVal
             /\ writes' = IF slot # cacheVal THEN writes + 1 ELSE writes
             /\ loads' = IF r.tag = "Ok" THEN loads + 1 ELSE loads
             /\ writer' = IF slot # cacheVal /\ writer = "none"
                           THEN "read_from" ELSE writer
             /\ Returned(t, IF r.tag = "Ok" THEN Res("Ok", slot, <<>>, "") ELSE r,
                         st, slot)
    /\ UNCHANGED <<feature, inputs, path, mkCalls, seenEnv, calls, cellAtStart,
                   probe>>

\* from_crate's CACHE.get_or_init(Config::default) has returned cfg.
DefaultReturned(t, cfg) ==
    /\ pc' = [pc EXCEPT ![t] = "done"]
    /\ ret' = [ret EXCEPT ![t] = Res("Ok", cfg, <<>>, "")]
    /\ observed' = observed \cup {cfg[1]}
    /\ waited' = [waited EXCEPT ![t] = FALSE]
    /\ UNCHANGED <<attempt, cellLeft, firstOk>>

\* CACHE.get_or_init(Config::default): claim the cell if it is
\* uninitialized and nobody is initializing it, and store Config::default();
\* return its value if it is initialized; wait while somebody is
\* initializing it.
GetOrInit(t) ==
    /\ pc[t] = "get_or_init"
    /\ IF may_initialize(cacheState)
       THEN LET slot == slot_after(cacheVal, default_closure) IN
            /\ cacheVal' = slot
            /\ cacheState' = state_after(TRUE)
            /\ wrote' = [wrote EXCEPT ![t] = (slot # cacheVal)]
            /\ firstVal' = IF firstVal = <<>> THEN slot ELSE firstVal
            /\ writes' = IF slot # cacheVal THEN writes + 1 ELSE writes
            /\ writer' = IF slot # cacheVal /\ writer = "none"
                          THEN "default" ELSE writer
            /\ DefaultReturned(t, slot)
       ELSE /\ is_initialized(cacheState)
            /\ UNCHANGED <<cell, wrote, firstVal, writes, writer>>
            /\ DefaultReturned(t, cacheVal)
    /\ UNCHANGED <<feature, inputs, path, mkCalls, fsOps, seenEnv, seenFile,
                   calls, cellAtStart, loads, probe>>

Next ==
    \/ \E t \in Threads : Start(t)
    \/ \E t \in Threads : GetOrTryInit(t)
    \/ \E t \in Threads : MakePath(t)
    \/ \E t \in Threads : ReadFrom(t)
    \/ \E t \in Threads : GetOrInit(t)

Spec == Init /\ [][Next]_vars

\* Number of loader calls made in one execution under the fair scheduler.
MaxFairCalls == 2

\* The step a thread takes next in the call it has in progress; its
\* position allows at most one.
Step(t) ==
    \/ GetOrTryInit(t)
    \/ MakePath(t)
    \/ ReadFrom(t)
    \/ GetOrInit(t)

\* The loader under fair scheduling: a thread whose next step stays
\* possible takes it.  The strategy and the read terminate, and the cell
\* wakes its waiters when it is released, after a success and after a
\* failure.
FairSpec ==
    /\ Init
    /\ [][Next /\ calls' <= MaxFairCalls]_vars
    /\ \A t \in Threads : WF_vars(Step(t))

\* Types of the state.
TypeOK ==
    /\ feature \in BOOLEAN
    /\ cacheState \in CellStates
    /\ Len(cacheVal) <= 1
    /\ \A t \in Threads :
          /\ pc[t] \in {"idle", "get_or_try_init", "make_path", "read_from",
                        "get_or_init", "done", "panicked"}
          /\ entry[t] \in Entries
          /\ strat[t] \in StrategiesOf(entry[t])
          /\ Len(path[t]) <= 1
          /\ attempt[t].tag \in ErrorKinds \cup {"Ok", "None"}
          /\ ret[t].tag \in ErrorKinds \cup {"Ok", "None", "Panic"}
          /\ seenEnv[t] \in EnvValues \cup {"none"}
          /\ seenFile[t] \in FileStates \cup {"none"}
    /\ calls \in 0..MaxCalls
    /\ writes \in 0..MaxCalls
    /\ loads \in 0..MaxCalls
    /\ writer \in {"none", "read_from", "default"}

(* ------------------ the public functions of ConfigError --------------- *)

\* Kinds of io::Error given to from_io.
IoErrorKinds ==
    {"NotFound", "PermissionDenied", "IsADirectory", "Interrupted", "Other"}

\* Paths given to from_io: the candidate paths, the empty path, a directory,
\* and a file elsewhere.
AnyPaths == Paths \cup {<<>>, <<"crate">>, <<"other", "sqlx.toml">>}

\* Every value of ConfigError over these paths and kinds; the variants are
\* public, so an Io may hold an io::Error of any kind.
AnyErrors ==
    {Env(v) : v \in {"NotPresent", "NotUnicode"}}
    \cup {NotFound(p) : p \in AnyPaths}
    \cup {Io(p, k) : p \in AnyPaths, k \in IoErrorKinds}
    \cup {Parse(p, "TomlError") : p \in AnyPaths}
    \cup {ParseDisabled(p) : p \in AnyPaths}

\* The loader's state, which the functions of ConfigError do not touch.
loader == <<feature, cell, pc, inputs, path, outputs, traces, calls,
            cellAtStart, ledger>>

\* ConfigError::from_io(path, error) is called.
FromIo ==
    /\ ~probe.made
    /\ \E p \in AnyPaths : \E k \in IoErrorKinds :
          probe' = [made |-> TRUE, via |-> "from_io", path |-> <<p>>,
                    kind |-> k, err |-> from_io(p, k),
                    asked |-> FALSE, found |-> <<>>]
    /\ UNCHANGED loader

\* A ConfigError is made from one of its variants.
Construct ==
    /\ ~probe.made
    /\ \E e \in AnyErrors :
          probe' = [made |-> TRUE, via |-> "variant", path |-> e.path,
                    kind |-> e.cause, err |-> e,
                    asked |-> FALSE, found |-> <<>>]
    /\ UNCHANGED loader

\* ConfigError::not_found_path(&self) is called on the error made.
NotFoundPath ==
    /\ probe.made
    /\ ~probe.asked
    /\ probe' = [probe EXCEPT !.asked = TRUE,
                              !.found = not_found_path(probe.err)]
    /\ UNCHANGED loader

NextErrors ==
    \/ FromIo
    \/ Construct
    \/ NotFoundPath

\* The functions of ConfigError applied to every input, in either build.
SpecErrors == Init /\ [][NextErrors]_vars

(* ------------------------------- claims -------------------------------- *)

\* The value of an initialized cell, as a Result.
Cached == Res("Ok", cacheVal, <<>>, "")

\* The cell as a failed attempt must leave it: uninitialized and empty.
Released == <<"INCOMPLETE", <<>>>>

\* Entries that exist (their metadata can be read) and cannot be read as a
\* file.
PresentUnreadable == {"denied", "isdir"}

\* Entries whose existence Path::try_exists confirms.
ExistenceConfirmed == {"denied", "isdir", "garbage", "doc"}

\* C1: first caller wins.  A call that begins after some call of the
\* fallible loader has returned Ok(c) never invokes its path strategy, never
\* touches the filesystem, and try_get_with returns Ok(c) to it, whatever
\* its strategy would have produced.
C1_FirstCallerWins ==
    \A t \in Threads :
        sawOk[t] # <<>> =>
            /\ mkCalls[t] = 0
            /\ fsOps[t] = 0
            /\ seenEnv[t] = "none" /\ seenFile[t] = "none"
            /\ pc[t] \notin {"make_path", "read_from", "get_or_init", "panicked"}
            /\ attempt[t].tag # "None" => attempt[t] = Res("Ok", sawOk[t], <<>>, "")

\* C1 happens: after an earlier Ok, a call whose strategy fails has
\* returned Ok.
C1_Witness ==
    \E t \in Threads :
        /\ sawOk[t] # <<>>
        /\ strat[t] = "fail"
        /\ pc[t] = "done"
        /\ ret[t].tag = "Ok"

\* C2: the cell is write-once.  Once a value has been written to the cell,
\* the cell is initialized and holds that value in every later state.
C2_WriteOnce ==
    /\ firstVal # <<>> => (cacheVal = firstVal /\ cacheState = "COMPLETE")
    /\ cacheVal # <<>> => firstVal # <<>>

\* C2 happens: the cell was written through try_from_current_dir, and a
\* later from_crate has run to its end.
C2_Witness ==
    \E t, u \in Threads :
        /\ t # u
        /\ wrote[u] /\ entry[u] = "try_from_current_dir"
        /\ entry[t] = "from_crate"
        /\ sawOk[t] # <<>>
        /\ pc[t] = "done"

\* C3 as stated: a call to which try_get_with returned an error, of any
\* kind, left the cell uninitialized and empty; and a later call of a
\* fallible entry point whose attempt reads a readable, valid document
\* succeeds and populates the cell, in every build.  The later call is
\* taken where it is certain to follow a failure: only one thread has made
\* calls, and the call that reads is not its first, so each of its earlier
\* calls has ended and left the cell empty, which only a failed attempt
\* does.
C3_Original ==
    \A t \in Threads :
        /\ IsErr(attempt[t]) => cellLeft[t] = Released
        /\ (/\ calls >= 2
            /\ \A u \in Threads \ {t} : pc[u] = "idle"
            /\ entry[t] # "from_crate"
            /\ seenFile[t] = "doc") =>
              (/\ attempt[t].tag = "Ok"
               /\ wrote[t]
               /\ cacheVal = attempt[t].val)

\* C3, amended: a failed attempt does not poison the cell.  A call to which
\* try_get_with returned an error, of any kind, found the cell released,
\* uninitialized and empty, on return, and that attempt wrote nothing (only
\* the fallback of from_crate after NotFound writes); the cell never holds
\* anything but a Configuration.  In a build with the `sqlx-toml` feature an
\* attempt that reads a readable, valid document, after a failure as well,
\* succeeds and populates the cell with the parsed document.  In a build
\* without the feature no retry can succeed: the same attempt returns
\* ParseDisabled with its path, and the cell stays uninitialized.
C3_FailureDoesNotPoison ==
    /\ cacheVal # <<>> => cacheVal[1] \in [Sections -> 0..2]
    /\ \A t \in Threads :
          /\ IsErr(attempt[t]) =>
                /\ cellLeft[t] = Released
                /\ wrote[t] => (/\ entry[t] = "from_crate"
                                /\ attempt[t].tag = "NotFound"
                                /\ pc[t] = "done")
          /\ (feature /\ seenFile[t] = "doc") =>
                /\ attempt[t] = Ok(from_str(DocText(path[t][1])).cfg)
                /\ wrote[t]
                /\ cellLeft[t] = <<"COMPLETE", attempt[t].val>>
          /\ (~feature /\ seenFile[t] = "doc") =>
                /\ attempt[t] = ParseDisabled(path[t][1])
                /\ cellLeft[t] = Released
                /\ wrote[t] => attempt[t].tag = "NotFound"

\* C3 happens: in a build that parses, the only calling thread has made a
\* call that failed and left the cell empty, and its next call has read a
\* valid document and populated the cell.
C3_Witness ==
    \E t \in Threads :
        /\ feature
        /\ calls >= 2
        /\ \A u \in Threads \ {t} : pc[u] = "idle"
        /\ entry[t] # "from_crate"
        /\ seenFile[t] = "doc"
        /\ wrote[t] /\ attempt[t].tag = "Ok"
        /\ cacheState = "COMPLETE" /\ cacheVal = attempt[t].val

\* C4: concurrent convergence.  Every Configuration any entry point has
\* returned, to any thread, is the one value the cell holds.
C4_Convergence ==
    /\ Cardinality(observed) <= 1
    /\ \A c \in observed : cacheState = "COMPLETE" /\ cacheVal = <<c>>
    /\ \A t \in Threads :
          /\ attempt[t].tag = "Ok" => attempt[t] = Cached
          /\ ret[t].tag = "Ok" => ret[t] = Cached

\* C4 happens: two threads whose calls overlapped, through different entry
\* points, each ran its own attempt, and both hold a result.
C4_Witness ==
    \E t, u \in Threads :
        /\ entry[t] = "from_crate" /\ entry[u] = "try_from_current_dir"
        /\ ret[t].tag = "Ok" /\ ret[u].tag = "Ok"
        /\ sawOk[t] = <<>> /\ sawOk[u] = <<>>
        /\ mkCalls[t] = 1 /\ mkCalls[u] = 1

\* C5 as stated: whenever from_crate finds nothing at its candidate path,
\* the Configuration it returns is Config::default().
C5_Original ==
    \A t \in Threads :
        (/\ entry[t] = "from_crate"
         /\ pc[t] = "done"
         /\ seenFile[t] = "absent") => ret[t] = Ok(ConfigDefault)

\* C5, amended: from_crate substitutes the default only into a cell that is
\* still uninitialized.  When its own attempt ends in NotFound it returns
\* the value of the cell after get_or_init(Config::default): that is
\* Config::default() if this call stored it, as it does when no other thread
\* has called the loader, and otherwise the Configuration another thread
\* committed in between.  When the cell is populated before the call looks,
\* it returns the cached Configuration and the file is not consulted.
C5_DefaultOnNotFound ==
    \A t \in Threads :
        (entry[t] = "from_crate" /\ pc[t] = "done") =>
            /\ ret[t] = Cached
            /\ attempt[t].tag \in {"Ok", "NotFound"}
            /\ attempt[t].tag = "Ok" => ret[t] = attempt[t]
            /\ attempt[t].tag = "NotFound" <=> seenFile[t] = "absent"
            /\ attempt[t].tag = "NotFound" =>
                  /\ wrote[t] => ret[t] = Ok(ConfigDefault)
                  /\ (\A u \in Threads \ {t} : pc[u] = "idle") => wrote[t]
                  /\ ~wrote[t] => \E u \in Threads \ {t} : pc[u] # "idle"

\* C5 happens: from_crate found no file and returned what another thread
\* stored, which is not the default.
C5_Witness ==
    \E t \in Threads :
        /\ entry[t] = "from_crate" /\ pc[t] = "done"
        /\ attempt[t].tag = "NotFound"
        /\ ~wrote[t]
        /\ ret[t] # Ok(ConfigDefault)

\* C6: from_crate is fatal on every error but NotFound, and the fallible
\* entry points never are.  A from_crate whose attempt ended in Env, Io,
\* Parse or ParseDisabled has panicked: it returned nothing, wrote nothing
\* to the cell, left the cell uninitialized, and the cell is empty if no
\* other thread has called the loader.  Nothing else panics: a call of a
\* fallible entry point that has ended returned Ok or an error.
C6_FatalUnlessNotFound ==
    \A t \in Threads :
        /\ (entry[t] = "from_crate" /\
            attempt[t].tag \in {"Env", "Io", "Parse", "ParseDisabled"}) =>
              /\ pc[t] = "panicked"
              /\ ret[t] = Panic
              /\ ~wrote[t]
              /\ cellLeft[t] = Released
              /\ (\A u \in Threads \ {t} : pc[u] = "idle") =>
                    (cacheVal = <<>> /\ cacheState = "INCOMPLETE")
        /\ pc[t] = "panicked" =>
              /\ entry[t] = "from_crate"
              /\ attempt[t].tag \in {"Env", "Io", "Parse", "ParseDisabled"}
        /\ (entry[t] # "from_crate" /\ pc[t] \in {"done", "panicked"}) =>
              /\ pc[t] = "done"
              /\ ret[t].tag \in ErrorKinds \cup {"Ok"}
              /\ ret[t] = attempt[t]

\* C6 happens: from_crate has panicked on a file that does not parse.
C6_Witness ==
    \E t \in Threads :
        /\ pc[t] = "panicked"
        /\ attempt[t].tag = "Parse"
        /\ cacheVal = <<>>

\* C7: a failing path strategy is reported at once.  A call whose strategy
\* ran and failed (the closure of try_from_crate finding CARGO_MANIFEST_DIR
\* unset or not unicode, or a failing closure given to try_get_with) got
\* the strategy's error, ConfigError::Env, from try_get_with; and a call
\* that got Env ran its strategy once, resolved no path, made no filesystem
\* access, wrote nothing, and left the cell uninitialized and empty.
C7_EnvErrorBeforeIo ==
    \A t \in Threads :
        /\ (strat[t] = "env_crate" /\ seenEnv[t] \in {"NotPresent", "NotUnicode"})
              => attempt[t] = Env(seenEnv[t])
        /\ (strat[t] = "fail" /\ mkCalls[t] > 0) => attempt[t].tag = "Env"
        /\ attempt[t].tag = "Env" =>
              /\ mkCalls[t] = 1
              /\ fsOps[t] = 0
              /\ seenFile[t] = "none"
              /\ path[t] = <<>>
              /\ ~wrote[t]
              /\ cellLeft[t] = Released

\* C7 happens: try_from_crate has returned Env for an unset variable.
C7_Witness ==
    \E t \in Threads :
        /\ entry[t] = "try_from_crate"
        /\ pc[t] = "done"
        /\ seenEnv[t] = "NotPresent"
        /\ ret[t] = Env("NotPresent")

\* C8: absence is NotFound in every build.  A call whose read_from found
\* nothing at the resolved path got NotFound with exactly that path, with
\* and without the `sqlx-toml` feature, and left the cell uninitialized.
C8_AbsentIsNotFound ==
    \A t \in Threads :
        seenFile[t] = "absent" =>
            /\ attempt[t] = NotFound(path[t][1])
            /\ not_found_path(attempt[t]) = path[t]
            /\ path[t] = <<make_path(strat[t], seenEnv[t]).path>>
            /\ cellLeft[t] = Released

\* C8 happens: a build without the feature has reported an absent file.
C8_Witness ==
    \E t \in Threads :
        /\ ~feature
        /\ pc[t] = "done"
        /\ seenFile[t] = "absent"
        /\ ret[t].tag = "NotFound"

\* C9 as stated: in every build, a call whose read_from found an entry that
\* exists and cannot be read got Io with that path.
C9_Original ==
    \A t \in Threads :
        seenFile[t] \in PresentUnreadable =>
            (attempt[t].tag = "Io" /\ attempt[t].path = path[t])

\* C9, amended: in a build with the `sqlx-toml` feature, read_from on a path
\* that exists and cannot be read returns Io with that path and the cause of
\* the failed read, for every entry point.  In a build without the feature
\* the file is not read: the same path is reported as ParseDisabled with
\* that path, because the existence check succeeds, and Io is returned only
\* when the existence check itself fails.  In no build is it reported as
\* NotFound or Parse, and the cell stays uninitialized.
C9_UnreadableClassified ==
    \A t \in Threads :
        /\ seenFile[t] \in PresentUnreadable =>
              /\ feature =>
                    attempt[t] = Io(path[t][1],
                                    read_to_string(seenFile[t], path[t][1]).err)
              /\ ~feature => attempt[t] = ParseDisabled(path[t][1])
              /\ attempt[t].tag \notin {"NotFound", "Parse", "Ok"}
              /\ attempt[t].cause # "NotFound"
              /\ cellLeft[t] = Released
        /\ seenFile[t] = "unreachable" =>
              attempt[t] = Io(path[t][1], "PermissionDenied")
        /\ (attempt[t].tag = "Io" /\ ~feature) => seenFile[t] = "unreachable"

\* C9 happens: a build without the feature has reported a directory as
\* ParseDisabled, through from_crate.
C9_Witness ==
    \E t \in Threads :
        /\ ~feature
        /\ entry[t] = "from_crate"
        /\ attempt[t].tag = "ParseDisabled"
        /\ seenFile[t] = "isdir"

\* C10: a build without the `sqlx-toml` feature never loads a file.  In
\* such a build a call whose read_from found an entry whose existence is
\* confirmed got ParseDisabled with that path; read_from never returns Ok
\* and leaves the cell uninitialized; and the cell holds nothing or
\* Config::default(), stored by a from_crate whose attempt ended in
\* NotFound.
C10_DisabledNeverLoads ==
    ~feature =>
        /\ cacheVal \in {<<>>, <<ConfigDefault>>}
        /\ \A t \in Threads :
              /\ seenFile[t] \in ExistenceConfirmed =>
                    attempt[t] = ParseDisabled(path[t][1])
              /\ seenFile[t] # "none" =>
                    /\ IsErr(attempt[t])
                    /\ cellLeft[t] = Released
              /\ wrote[t] =>
                    /\ entry[t] = "from_crate"
                    /\ attempt[t].tag = "NotFound"
                    /\ ret[t] = Ok(ConfigDefault)

\* C10 happens: in a build without the feature one call has been refused a
\* valid document and the cell holds the default.
C10_Witness ==
    /\ ~feature
    /\ cacheVal = <<ConfigDefault>>
    /\ \E t \in Threads :
          /\ attempt[t].tag = "ParseDisabled"
          /\ seenFile[t] = "doc"

\* C11: the path strategy is consumed at most once per call and never on a
\* cache hit.  Every call has invoked make_path zero or one times; the
\* strategy and the read run only in the call that has claimed a cell that
\* holds nothing; and a call that found the cell populated when it reached
\* get_or_try_init, because it began after the write or because it waited
\* while another thread's attempt succeeded, got the cached value without
\* invoking make_path or touching the filesystem.
C11_StrategyAtMostOnce ==
    \A t \in Threads :
        /\ mkCalls[t] \in {0, 1}
        /\ pc[t] = "make_path" => mkCalls[t] = 0
        /\ pc[t] \in {"make_path", "read_from"} =>
              /\ cacheState = "RUNNING"
              /\ cacheVal = <<>>
              /\ \A u \in Threads \ {t} : pc[u] \notin {"make_path", "read_from"}
        /\ cellAtStart[t] # <<>> => mkCalls[t] = 0
        /\ (attempt[t].tag = "Ok" /\ ~wrote[t]) =>
              /\ mkCalls[t] = 0
              /\ fsOps[t] = 0
              /\ seenEnv[t] = "none" /\ seenFile[t] = "none"
        /\ mkCalls[t] = 1 =>
              /\ cellAtStart[t] = <<>>
              /\ attempt[t].tag = "Ok" => wrote[t]

\* C11 happens: a call that began before another thread's attempt stored
\* its value has returned that value without invoking its strategy.
C11_Witness ==
    \E t, u \in Threads :
        /\ t # u
        /\ cellAtStart[t] = <<>> /\ sawOk[t] = <<>>
        /\ wrote[u] /\ attempt[u].tag = "Ok" /\ mkCalls[u] = 1
        /\ pc[t] = "done"
        /\ ret[t] = attempt[u]
        /\ mkCalls[t] = 0

\* C12 as stated: every error any entry point has returned, of whatever
\* kind, carries a filesystem path.
C12_Original ==
    \A t \in Threads :
        IsErr(ret[t]) => ret[t].path # <<>>

\* C12, amended: every error of kind NotFound, Io, Parse or ParseDisabled
\* that try_get_with produced, whether a fallible entry point returned it or
\* from_crate panicked with it, carries the path the call's strategy
\* resolved.  An error of kind Env carries no path, only the VarError that
\* caused it: the strategy failed before any path was resolved.
C12_ErrorsCarryPath ==
    \A t \in Threads :
        /\ attempt[t].tag \in {"NotFound", "Io", "Parse", "ParseDisabled"} =>
              /\ attempt[t].path # <<>>
              /\ attempt[t].path = path[t]
              /\ attempt[t].path[1] \in Paths
        /\ attempt[t].tag = "Env" =>
              /\ attempt[t].path = <<>>
              /\ path[t] = <<>>
              /\ attempt[t].cause \in {"NotPresent", "NotUnicode"}
        /\ IsErr(ret[t]) => ret[t] = attempt[t]

\* C12 happens: one call has returned Env, which has no path, and another
\* has returned Io with its path.
C12_Witness ==
    \E t, u \in Threads :
        /\ pc[t] = "done" /\ ret[t] = Env("NotUnicode")
        /\ pc[u] = "done" /\ ret[u].tag = "Io" /\ ret[u].path = <<CwdPath>>

\* C13: not_found_path returns Some(path), with the error's own path, if
\* and only if the error is NotFound, and None for Env, Io, Parse and
\* ParseDisabled; from_io(path, e) is NotFound{path} exactly when e's kind
\* is io::ErrorKind::NotFound and Io{path, e} otherwise; so
\* not_found_path(from_io(path, e)) is Some(path) exactly for NotFound.
C13_NotFoundAccessor ==
    probe.made =>
        /\ probe.via = "from_io" =>
              /\ probe.kind = "NotFound" =>
                    (/\ probe.err.tag = "NotFound"
                     /\ probe.err.path = probe.path
                     /\ probe.err.cause = "")
              /\ probe.kind # "NotFound" =>
                    (/\ probe.err.tag = "Io"
                     /\ probe.err.path = probe.path
                     /\ probe.err.cause = probe.kind)
        /\ probe.asked =>
              /\ probe.err.tag = "NotFound" =>
                    (probe.found = probe.err.path /\ Len(probe.found) = 1)
              /\ probe.err.tag \in {"Env", "Io", "Parse", "ParseDisabled"} =>
                    probe.found = <<>>
              /\ probe.via = "from_io" =>
                    /\ probe.kind = "NotFound" => probe.found = probe.path
                    /\ probe.kind # "NotFound" => probe.found = <<>>

\* C13 happens: from_io was given a missing working-directory file, and
\* not_found_path returned its path.
C13_Witness ==
    /\ probe.made /\ probe.asked
    /\ probe.via = "from_io"
    /\ probe.kind = "NotFound"
    /\ probe.found = <<CwdPath>>

\* C14: at most one initialization sequence ever wins.  Over all threads
\* and calls, at most one run of read_from has returned Ok and at most one
\* value has been stored into the cell; the value stored is the one the
\* cell holds; a successful read_from is the store; after a store no
\* strategy or read runs, and from_crate's default is stored only into a
\* cell no read_from has populated.
C14_SingleWinner ==
    /\ writes <= 1
    /\ loads <= 1
    /\ loads <= writes
    /\ writes = 1 <=> cacheVal # <<>>
    /\ writes = 1 => (cacheState = "COMPLETE" /\ cacheVal = firstVal)
    /\ writer = "read_from" <=> loads = 1
    /\ writer = "default" <=> (writes = 1 /\ loads = 0)
    /\ writer = "default" => cacheVal = <<ConfigDefault>>
    /\ Cardinality({t \in Threads : wrote[t]}) <= 1
    /\ \A t \in Threads :
          /\ wrote[t] => (cacheVal # <<>> /\ ret[t] = Cached)
          /\ cellAtStart[t] # <<>> =>
                (~wrote[t] /\ fsOps[t] = 0 /\ pc[t] \notin {"make_path", "read_from"})
          /\ (attempt[t].tag = "Ok" /\ fsOps[t] = 1) => wrote[t]

\* C14 happens: one call's read_from has won, a from_crate that found no
\* file has returned without its default taking effect, and a call begun
\* after the store has returned without reading.
C14_Witness ==
    /\ writes = 1 /\ loads = 1
    /\ \E t, u \in Threads :
          /\ t # u
          /\ entry[t] = "from_crate" /\ pc[t] = "done"
          /\ attempt[t].tag = "NotFound" /\ ~wrote[t]
          /\ pc[u] = "done" /\ cellAtStart[u] # <<>> /\ fsOps[u] = 0

\* A call is in progress: begun and neither returned nor panicked.
InCall(t) == pc[t] \in {"get_or_try_init", "make_path", "read_from", "get_or_init"}

\* C15: failed attempts do not block other threads.  Under fair
\* scheduling every execution reaches a point from which no call is in
\* progress: every call any thread has begun has returned or, for
\* from_crate, panicked.  A thread that waits on the cell while another
\* thread's attempt fails therefore goes on to run its own attempt and
\* returns.
C15_EveryCallReturns ==
    <>[](\A t \in Threads : ~InCall(t))

\* C15 happens: a call that began while another thread's attempt was
\* running, and so had to wait, is running its own attempt after that
\* attempt failed.
C15_Witness ==
    \E t, u \in Threads :
        /\ t # u
        /\ waited[t]
        /\ IsErr(attempt[u])
        /\ calls = 2
        /\ pc[t] = "read_from"

\* C16: errors belong to the call that produced them.  An error
\* try_get_with has returned to a call is the outcome of the attempt that
\* call ran itself: the call invoked its own strategy; an Env is its
\* strategy's failure; a NotFound, Io, Parse or ParseDisabled is what
\* read_from made of what that call found at the path of its own strategy,
\* and carries that path; and a fallible entry point returns it unchanged.
C16_ErrorsBelongToCaller ==
    \A t \in Threads :
        /\ IsErr(attempt[t]) =>
              /\ mkCalls[t] = 1
              /\ attempt[t].tag = "Env" =>
                    /\ strat[t] \in {"env_crate", "fail"}
                    /\ strat[t] = "env_crate" => attempt[t].cause = seenEnv[t]
                    /\ fsOps[t] = 0
              /\ attempt[t].tag # "Env" =>
                    /\ fsOps[t] = 1
                    /\ seenFile[t] # "none"
                    /\ attempt[t] = read_from(path[t][1], seenFile[t])
                    /\ attempt[t].path = path[t]
                    /\ strat[t] = "lit_cwd" => attempt[t].path = <<CwdPath>>
                    /\ strat[t] \in {"env_crate", "lit_crate"} =>
                          attempt[t].path = <<CratePath>>
        /\ IsErr(ret[t]) =>
              /\ entry[t] # "from_crate"
              /\ ret[t] = attempt[t]

\* C16 happens: two threads hold errors of their own attempts, on
\* different paths.
C16_Witness ==
    \E t, u \in Threads :
        /\ entry[t] = "try_from_current_dir" /\ pc[t] = "done"
        /\ ret[t] = NotFound(CwdPath)
        /\ entry[u] = "try_from_crate" /\ pc[u] = "done"
        /\ ret[u].tag = "Parse" /\ ret[u].path = <<CratePath>>

\* C17: the default is sticky.  Once from_crate has stored
\* Config::default() because its attempt ended in NotFound, the cell holds
\* the default for good, and every call to any entry point begun after the
\* store returns the default without invoking its strategy or reading any
\* file, whatever is at the path its strategy resolves to; no other
\* Configuration is ever returned.
C17_DefaultIsSticky ==
    writer = "default" =>
        /\ cacheState = "COMPLETE"
        /\ cacheVal = <<ConfigDefault>>
        /\ observed \subseteq {ConfigDefault}
        /\ \A t \in Threads :
              /\ wrote[t] =>
                    (entry[t] = "from_crate" /\ attempt[t].tag = "NotFound")
              /\ cellAtStart[t] # <<>> =>
                    /\ cellAtStart[t] = <<ConfigDefault>>
                    /\ pc[t] \in {"get_or_try_init", "done"}
                    /\ mkCalls[t] = 0
                    /\ fsOps[t] = 0
                    /\ seenEnv[t] = "none" /\ seenFile[t] = "none"
                    /\ pc[t] = "done" =>
                          (/\ attempt[t] = Ok(ConfigDefault)
                           /\ ret[t] = Ok(ConfigDefault))

\* C17 happens: in a build that parses, after from_crate stored the
\* default, try_from_current_dir was called and returned the default.
C17_Witness ==
    /\ feature
    /\ writer = "default"
    /\ \E t \in Threads :
          /\ cellAtStart[t] = <<ConfigDefault>>
          /\ entry[t] = "try_from_current_dir"
          /\ pc[t] = "done"
          /\ ret[t] = Ok(ConfigDefault)

\* C18: errors can only precede publication.  A call to any entry point
\* begun when the cell is populated, by a read or by from_crate's default,
\* never gets an error and never panics: it returns the Configuration the
\* cell held when it began, without reading CARGO_MANIFEST_DIR or the
\* filesystem, so whatever they hold by then.
C18_NoErrorAfterPublication ==
    \A t \in Threads :
        cellAtStart[t] # <<>> =>
            /\ ~IsErr(attempt[t])
            /\ ~IsErr(ret[t])
            /\ ret[t] # Panic
            /\ pc[t] \in {"get_or_try_init", "done"}
            /\ seenEnv[t] = "none" /\ seenFile[t] = "none"
            /\ pc[t] = "done" =>
                  (/\ ret[t] = Res("Ok", cellAtStart[t], <<>>, "")
                   /\ cacheVal = cellAtStart[t])

\* C18 happens: one call got an error before the cell was populated, and a
\* from_crate begun after it was populated has returned.
C18_Witness ==
    \E t, u \in Threads :
        /\ cellAtStart[u] = <<>> /\ IsErr(ret[u])
        /\ entry[t] = "from_crate"
        /\ cellAtStart[t] # <<>>
        /\ pc[t] = "done"
        /\ ret[t].tag = "Ok"

=============================================================================
